---------------------------- MODULE Spec2Model ----------------------------
(***************************************************************************)
(* Model of clan_cli/vars/secret_modules/bitwarden.py: the SecretStore     *)
(* backend that keeps clan vars in a Bitwarden vault through the bw CLI.   *)
(*                                                                         *)
(* Text and byte strings are sequences of character codes (ASCII), so      *)
(* that prefix tests, substring tests, sorting, base64 and strip() are     *)
(* computed the way the Python code computes them.                         *)
(***************************************************************************)
EXTENDS Naturals, Sequences, FiniteSets

VARIABLES
    folders,   \* the vault's folders, in listing order: records [id, name]
    items,     \* the vault's live items, in listing order:
               \*   records [id, name, folderId, notes, fields]
    flake,     \* Generator.get_machine_generators: machine -> generators
    remote,    \* per machine, the directory secretLocation on its host:
               \*   [tars: archives [path, entries], plain: files [path, content]]
    tmpdirs,   \* number of staging directories that currently exist
    life,      \* per address, where the calls made so far have left its
               \*   entry: "ABSENT" or "PRESENT"
    tracked,   \* the vault started empty and no call has raised so far
    last       \* the last call of the store: its inputs and its outcome

vars == <<folders, items, flake, remote, tmpdirs, life, tracked, last>>

(***************************************************************************)
(* Bounds of the model.                                                    *)
(***************************************************************************)
\* the vault holds at most this many items
MaxItems == 3

(***************************************************************************)
(* Strings.                                                                *)
(***************************************************************************)
\* str.startswith
StartsWith(s, p) == Len(p) <= Len(s) /\ SubSeq(s, 1, Len(p)) = p

\* Python's "p in s" for strings
Contains(s, p) ==
    \E i \in 0..(Len(s) - Len(p)) : SubSeq(s, i + 1, i + Len(p)) = p

\* str.lower (ASCII letters)
Lower(s) == [i \in 1..Len(s) |-> IF s[i] \in 65..90 THEN s[i] + 32 ELSE s[i]]

\* str.encode("utf-8") for code points below 2048
RECURSIVE Utf8Encode(_)
Utf8Encode(s) ==
    IF s = <<>> THEN <<>>
    ELSE (IF s[1] < 128 THEN <<s[1]>>
          ELSE <<192 + (s[1] \div 64), 128 + (s[1] % 64)>>)
         \o Utf8Encode(Tail(s))

\* bytes.decode("utf-8") of one- and two-byte sequences; U+FFFD otherwise
RECURSIVE Utf8Decode(_)
Utf8Decode(b) ==
    IF b = <<>> THEN <<>>
    ELSE IF b[1] < 128 THEN <<b[1]>> \o Utf8Decode(Tail(b))
    ELSE IF b[1] \in 194..223 /\ Len(b) >= 2 /\ b[2] \in 128..191 THEN
        <<(b[1] - 192) * 64 + (b[2] - 128)>> \o Utf8Decode(SubSeq(b, 3, Len(b)))
    ELSE <<65533>> \o Utf8Decode(Tail(b))

\* "clan-vars"
entry_prefix == <<99, 108, 97, 110, 45, 118, 97, 114, 115>>
\* "/per-machine/"
PerMachineDir == <<47, 112, 101, 114, 45, 109, 97, 99, 104, 105, 110, 101, 47>>
\* "/shared/"
SharedDir == <<47, 115, 104, 97, 114, 101, 100, 47>>
\* "/"
Slash == <<47>>

(***************************************************************************)
(* base64 (the standard library's codec, as the store uses it).            *)
(***************************************************************************)
\* "ABCDEFGHIJKLMNOPQRSTUVWXYZabcdefghijklmnopqrstuvwxyz0123456789+/"
B64Alphabet ==
    <<65, 66, 67, 68, 69, 70, 71, 72, 73, 74, 75, 76, 77, 78, 79, 80, 81, 82,
      83, 84, 85, 86, 87, 88, 89, 90, 97, 98, 99, 100, 101, 102, 103, 104,
      105, 106, 107, 108, 109, 110, 111, 112, 113, 114, 115, 116, 117, 118,
      119, 120, 121, 122, 48, 49, 50, 51, 52, 53, 54, 55, 56, 57, 43, 47>>

\* "="
B64Pad == <<61>>

B64Char(n) == B64Alphabet[n + 1]

\* the 6-bit value of a character of the alphabet, 64 for any other character
B64Value(c) ==
    IF \E n \in 0..63 : B64Alphabet[n + 1] = c
    THEN CHOOSE n \in 0..63 : B64Alphabet[n + 1] = c
    ELSE 64

\* base64.b64encode(value).decode("ascii")
RECURSIVE b64encode(_)
b64encode(b) ==
    IF Len(b) = 0 THEN <<>>
    ELSE IF Len(b) = 1 THEN
        <<B64Char(b[1] \div 4), B64Char((b[1] % 4) * 16)>> \o B64Pad \o B64Pad
    ELSE IF Len(b) = 2 THEN
        <<B64Char(b[1] \div 4),
          B64Char((b[1] % 4) * 16 + (b[2] \div 16)),
          B64Char((b[2] % 16) * 4)>> \o B64Pad
    ELSE
        <<B64Char(b[1] \div 4),
          B64Char((b[1] % 4) * 16 + (b[2] \div 16)),
          B64Char((b[2] % 16) * 4 + (b[3] \div 64)),
          B64Char(b[3] % 64)>> \o b64encode(SubSeq(b, 4, Len(b)))

\* binascii.a2b_base64 in its default (non-strict) mode, one character at a
\* time: quad is the position in the current group of four, left the bits
\* carried over, pads the number of "=" seen since the last data character.
RECURSIVE B64Scan(_, _, _, _, _)
B64Scan(t, quad, left, pads, out) ==
    IF t = <<>> THEN
        IF quad = 0 THEN [ok |-> TRUE, bytes |-> out]
        ELSE [ok |-> FALSE, bytes |-> <<>>]
    ELSE IF t[1] = B64Pad[1] THEN
        IF quad >= 2 /\ quad + pads + 1 >= 4 THEN [ok |-> TRUE, bytes |-> out]
        ELSE B64Scan(Tail(t), quad, left, IF quad >= 2 THEN pads + 1 ELSE pads, out)
    ELSE IF B64Value(t[1]) = 64 THEN B64Scan(Tail(t), quad, left, pads, out)
    ELSE LET v == B64Value(t[1]) IN
        CASE quad = 0 -> B64Scan(Tail(t), 1, v, 0, out)
          [] quad = 1 ->
               B64Scan(Tail(t), 2, v % 16, 0, Append(out, left * 4 + (v \div 16)))
          [] quad = 2 ->
               B64Scan(Tail(t), 3, v % 4, 0, Append(out, left * 16 + (v \div 4)))
          [] OTHER ->
               B64Scan(Tail(t), 0, 0, 0, Append(out, left * 64 + v))

\* base64.b64decode(notes): [ok, bytes]; ok = FALSE is binascii.Error
b64decode(t) == B64Scan(t, 0, 0, 0, <<>>)


(***************************************************************************)
(* The generators and variables the calls are made with.                   *)
(***************************************************************************)
\* machines "m" and "m1": the first name is a prefix of the second
Machines == {<<109>>, <<109, 49>>}

\* generator "g" of machine "m", of machine "m1", and shared
GenM == [name |-> <<103>>, share |-> FALSE, machines |-> << <<109>> >>]
GenM1 == [name |-> <<103>>, share |-> FALSE, machines |-> << <<109, 49>> >>]
GenShared == [name |-> <<103>>, share |-> TRUE, machines |-> << <<109>> >>]

\* the addresses the calls are made with: vars "s" and "s2" of g on "m" (a
\* vault search for "s" also finds "s2"), "s" of g on "m1", "s" of shared g
Addresses ==
    {<<GenM, <<115>>>>, <<GenM, <<115, 50>>>>, <<GenM1, <<115>>>>,
     <<GenShared, <<115>>>>}

\* the secret values the calls store: b"" and b"\x00\x01\x02\xff\xfe"
Values == {<<>>, <<0, 1, 2, 255, 254>>}

(***************************************************************************)
(* The vault CLI.  A call of the store runs a fixed series of bw commands; *)
(* the input "fail" names the command that goes wrong during the call (or  *)
(* "none"), "kind" says how.                                               *)
(***************************************************************************)
FailKinds == {"nonzero", "locked", "missing"}

\* what subprocess.run and shutil.which give for the command named cmd:
\* present = bw is in PATH; "boom" and "Vault is locked." on stderr
Proc(cmd, fail, kind) ==
    IF fail # cmd THEN [present |-> TRUE, returncode |-> 0, stderr |-> <<>>]
    ELSE CASE kind = "missing" ->
                [present |-> FALSE, returncode |-> 0, stderr |-> <<>>]
           [] kind = "locked" ->
                [present |-> TRUE, returncode |-> 1,
                 stderr |-> <<86, 97, 117, 108, 116, 32, 105, 115, 32, 108,
                              111, 99, 107, 101, 100, 46>>]
           [] OTHER ->
                [present |-> TRUE, returncode |-> 1,
                 stderr |-> <<98, 111, 111, 109>>]

\* "not logged in", "vault is locked"
NotLoggedIn == <<110, 111, 116, 32, 108, 111, 103, 103, 101, 100, 32, 105, 110>>
VaultIsLocked ==
    <<118, 97, 117, 108, 116, 32, 105, 115, 32, 108, 111, 99, 107, 101, 100>>

\* _run_bw: the error it raises for the process result p, or "none"
_run_bw(p, check) ==
    LET stderr == IF p.stderr # <<>> THEN Utf8Decode(p.stderr) ELSE <<>>
    IN  IF ~p.present THEN "ToolMissing"
        ELSE IF check /\ p.returncode # 0 THEN
            IF Contains(Lower(stderr), NotLoggedIn)
               \/ Contains(Lower(stderr), VaultIsLocked)
            THEN "VaultLocked"
            ELSE "CommandFailed"
        ELSE "none"

\* subprocess.run(["bw", "encode"], check=True)
BwEncode(p) ==
    IF ~p.present THEN "FileNotFoundError"
    ELSE IF p.returncode # 0 THEN "CalledProcessError"
    ELSE "none"

\* an id the vault has not given to any live folder or item
FreshId(fs, is) ==
    CHOOSE n \in 1..(Len(fs) + Len(is) + 1) :
        /\ \A i \in 1..Len(fs) : fs[i].id # n
        /\ \A i \in 1..Len(is) : is[i].id # n
        /\ \A k \in 1..(n - 1) :
              (\E i \in 1..Len(fs) : fs[i].id = k)
              \/ (\E i \in 1..Len(is) : is[i].id = k)

\* the fields the store writes beside the notes
EncodingFields == {[name |-> "encoding", value |-> "base64", type |-> 0]}

\* the first folder of the listing named path: its position, 0 if none
FolderNamed(fs, path) ==
    IF \E i \in 1..Len(fs) : fs[i].name = path
    THEN CHOOSE i \in 1..Len(fs) :
            fs[i].name = path /\ \A j \in 1..(i - 1) : fs[j].name # path
    ELSE 0

\* bw list items --search term
BwSearch(is, term) ==
    LET Hit(it) == Contains(it.name, term) IN SelectSeq(is, Hit)

\* bw list items --folderid fid
BwItemsInFolder(is, fid) ==
    LET In(it) == it.folderId = fid IN SelectSeq(is, In)

\* bw delete item id
BwDeleteItem(is, id) ==
    LET Keep(it) == it.id # id IN SelectSeq(is, Keep)

\* bw delete folder id
BwDeleteFolder(fs, id) ==
    LET Keep(f) == f.id # id IN SelectSeq(fs, Keep)

\* The store keeps no id of the vault between two calls, and it depends on
\* the order of a listing only among folders of one name and among items of
\* one name in one folder.  The vault is therefore kept in one form: bw lists
\* folders by name and items by folder and name, the oldest first among
\* equals, and the ids are 1, 2, ... in that order.
RECURSIVE BytesLess(_, _)
BytesLess(a, b) ==
    IF b = <<>> THEN FALSE
    ELSE IF a = <<>> THEN TRUE
    ELSE IF a[1] # b[1] THEN a[1] < b[1]
    ELSE BytesLess(Tail(a), Tail(b))

RECURSIVE InsertFolder(_, _)
InsertFolder(f, s) ==
    IF s = <<>> THEN <<f>>
    ELSE IF BytesLess(f.name, s[1].name) THEN <<f>> \o s
    ELSE <<s[1]>> \o InsertFolder(f, Tail(s))

RECURSIVE SortFolders(_)
SortFolders(s) ==
    IF s = <<>> THEN <<>>
    ELSE InsertFolder(s[Len(s)], SortFolders(SubSeq(s, 1, Len(s) - 1)))

ItemLess(a, b) ==
    \/ a.folderId < b.folderId
    \/ a.folderId = b.folderId /\ BytesLess(a.name, b.name)

RECURSIVE InsertItem(_, _)
InsertItem(it, s) ==
    IF s = <<>> THEN <<it>>
    ELSE IF ItemLess(it, s[1]) THEN <<it>> \o s
    ELSE <<s[1]>> \o InsertItem(it, Tail(s))

RECURSIVE SortItems(_)
SortItems(s) ==
    IF s = <<>> THEN <<>>
    ELSE InsertItem(s[Len(s)], SortItems(SubSeq(s, 1, Len(s) - 1)))

Listing(fs, is) ==
    LET sortedFolders == SortFolders(fs)
        NewFolderId(old) ==
            IF \E i \in 1..Len(sortedFolders) : sortedFolders[i].id = old
            THEN CHOOSE i \in 1..Len(sortedFolders) : sortedFolders[i].id = old
            ELSE 0
        moved == [i \in 1..Len(is) |->
                     [is[i] EXCEPT !.folderId = NewFolderId(is[i].folderId)]]
        sortedItems == SortItems(moved)
    IN  [folders |-> [i \in 1..Len(sortedFolders) |->
                         [sortedFolders[i] EXCEPT !.id = i]],
         items |-> [i \in 1..Len(sortedItems) |->
                       [sortedItems[i] EXCEPT !.id = Len(sortedFolders) + i]]]

NoItem == [id |-> 0, name |-> <<>>, folderId |-> 0, notes |-> <<>>, fields |-> {}]

(***************************************************************************)
(* SecretStore.                                                            *)
(***************************************************************************)
\* a per-machine path that leaves the machine out
_folder_path_without_machine(generator) ==
    IF generator.share
    THEN entry_prefix \o SharedDir \o generator.name
    ELSE entry_prefix \o PerMachineDir \o generator.name

_folder_path(generator) ==
    IF generator.share
    THEN entry_prefix \o SharedDir \o generator.name
    ELSE entry_prefix \o PerMachineDir \o generator.machines[1]
         \o Slash \o generator.name

\* [err, folders, id, calls]
_get_or_create_folder(fs, is, folder_path, fail, kind) ==
    LET e1 == _run_bw(Proc("folder_list", fail, kind), TRUE)
        at == FolderNamed(fs, folder_path)
        e2 == BwEncode(Proc("folder_encode", fail, kind))
        e3 == _run_bw(Proc("folder_create", fail, kind), TRUE)
        id == FreshId(fs, is)
    IN  IF e1 # "none" THEN [err |-> e1, folders |-> fs, id |-> 0, calls |-> 1]
        ELSE IF at # 0 THEN
            [err |-> "none", folders |-> fs, id |-> fs[at].id, calls |-> 1]
        ELSE IF e2 # "none" THEN [err |-> e2, folders |-> fs, id |-> 0, calls |-> 2]
        ELSE IF e3 # "none" THEN [err |-> e3, folders |-> fs, id |-> 0, calls |-> 3]
        ELSE [err |-> "none",
              folders |-> Append(fs, [id |-> id, name |-> folder_path]),
              id |-> id, calls |-> 3]

\* [err, found, item, calls]; found = FALSE is the None the code returns
\* an item of another folder named like the variable matches as well
ItemMatchesByName(it, name, folder_id) == it.name = name

\* the filter _get_item applies to the items the search returned
ItemMatches(it, name, folder_id) ==
    it.name = name /\ it.folderId = folder_id

_get_item(fs, is, generator, name, fail, kind) ==
    LET folder_path == _folder_path(generator)
        p1 == Proc("item_list", fail, kind)
        e1 == _run_bw(p1, FALSE)
        found_items == BwSearch(is, name)
        e2 == _run_bw(Proc("item_folders", fail, kind), TRUE)
        at == FolderNamed(fs, folder_path)
        Match(it) == ItemMatches(it, name, fs[at].id)
        matching == SelectSeq(found_items, Match)
        none == [err |-> "none", found |-> FALSE, item |-> NoItem, calls |-> 2]
    IN  IF e1 # "none" THEN [none EXCEPT !.err = e1, !.calls = 1]
        ELSE IF p1.returncode # 0 THEN [none EXCEPT !.calls = 1]
        ELSE IF e2 # "none" THEN [none EXCEPT !.err = e2]
        ELSE IF at = 0 THEN none
        ELSE IF matching = <<>> THEN none
        ELSE [none EXCEPT !.found = TRUE, !.item = matching[1]]

\* [err, folders, items, calls]
_set(fs, is, generator, var_name, value, fail, kind) ==
    LET folder_path == _folder_path(generator)
        f == _get_or_create_folder(fs, is, folder_path, fail, kind)
        existing == _get_item(f.folders, is, generator, var_name, fail, kind)
        encoded_value == b64encode(value)
        e3 == BwEncode(Proc("item_encode", fail, kind))
        e4 == _run_bw(Proc("item_write", fail, kind), TRUE)
        edited == [i \in 1..Len(is) |->
                      IF is[i].id = existing.item.id
                      THEN [existing.item EXCEPT !.notes = encoded_value,
                                                 !.fields = EncodingFields]
                      ELSE is[i]]
        created == Append(is, [id |-> FreshId(f.folders, is),
                               name |-> var_name,
                               folderId |-> f.id,
                               notes |-> encoded_value,
                               fields |-> EncodingFields])
        stop(e, n) == [err |-> e, folders |-> f.folders, items |-> is, calls |-> n]
    IN  IF f.err # "none" THEN stop(f.err, f.calls)
        ELSE IF existing.err # "none" THEN stop(existing.err, f.calls + existing.calls)
        ELSE IF e3 # "none" THEN stop(e3, f.calls + existing.calls + 1)
        ELSE IF e4 # "none" THEN stop(e4, f.calls + existing.calls + 2)
        ELSE [err |-> "none", folders |-> f.folders,
              items |-> IF existing.found THEN edited ELSE created,
              calls |-> f.calls + existing.calls + 2]

\* [err, bytes, calls]
\* the body of get, given what _get_item gives (r): [err, bytes, calls]
ItemValue(r) ==
    LET notes == r.item.notes
        is_base64 == \E f \in r.item.fields :
                        f.name = "encoding" /\ f.value = "base64"
        decoded == b64decode(notes)
        stop(e) == [err |-> e, bytes |-> <<>>, calls |-> r.calls]
    IN  IF r.err # "none" THEN stop(r.err)
        ELSE IF ~r.found THEN stop("SecretNotFound")
        ELSE IF is_base64 THEN
            IF decoded.ok THEN [stop("none") EXCEPT !.bytes = decoded.bytes]
            ELSE stop("binascii.Error")
        ELSE [stop("none") EXCEPT !.bytes = Utf8Encode(notes)]

get(fs, is, generator, name, fail, kind) ==
    ItemValue(_get_item(fs, is, generator, name, fail, kind))

\* [err, bool, calls]
exists(fs, is, generator, name, fail, kind) ==
    LET r == _get_item(fs, is, generator, name, fail, kind)
    IN  [err |-> r.err, bool |-> r.err = "none" /\ r.found, calls |-> r.calls]

\* a delete that takes a missing entry for an error, as get does
delete_strict(fs, is, generator, name, fail, kind) ==
    LET r == _get_item(fs, is, generator, name, fail, kind)
        e2 == _run_bw(Proc("item_delete", fail, kind), TRUE)
    IN  IF r.err # "none" THEN [err |-> r.err, items |-> is, calls |-> r.calls]
        ELSE IF ~r.found THEN
            [err |-> "SecretNotFound", items |-> is, calls |-> r.calls]
        ELSE IF e2 # "none" THEN [err |-> e2, items |-> is, calls |-> r.calls + 1]
        ELSE [err |-> "none", items |-> BwDeleteItem(is, r.item.id),
              calls |-> r.calls + 1]

\* [err, items, calls]
delete(fs, is, generator, name, fail, kind) ==
    LET r == _get_item(fs, is, generator, name, fail, kind)
        e2 == _run_bw(Proc("item_delete", fail, kind), TRUE)
    IN  IF r.err # "none" THEN [err |-> r.err, items |-> is, calls |-> r.calls]
        ELSE IF ~r.found THEN [err |-> "none", items |-> is, calls |-> r.calls]
        ELSE IF e2 # "none" THEN [err |-> e2, items |-> is, calls |-> r.calls + 1]
        ELSE [err |-> "none", items |-> BwDeleteItem(is, r.item.id),
              calls |-> r.calls + 1]

\* the prefix without its closing slash
folder_prefix_open(machine) == entry_prefix \o PerMachineDir \o machine

\* the folder names delete_store takes for the machine's
folder_prefix(machine) == entry_prefix \o PerMachineDir \o machine \o Slash

\* the bw commands delete_store runs on the vault (fs, is), in order
RECURSIVE DeleteStoreItemSteps(_, _)
DeleteStoreItemSteps(doomed, is) ==
    IF doomed = <<>> THEN <<>>
    ELSE LET listed == BwItemsInFolder(is, doomed[1].id)
         IN  <<[cmd |-> "list_items", id |-> doomed[1].id]>>
             \o [i \in 1..Len(listed) |->
                    [cmd |-> "delete_item", id |-> listed[i].id]]
             \o DeleteStoreItemSteps(Tail(doomed), is)

\* [err, folders, items, calls]; failAt is the position, among the bw commands
\* the call runs, of the one that goes wrong (0: none does)
delete_store(fs, is, machine, failAt, kind) ==
    LET InStore(f) == StartsWith(f.name, folder_prefix(machine))
        folders_to_delete == SelectSeq(fs, InStore)
        steps == <<[cmd |-> "list_folders", id |-> 0]>>
                 \o DeleteStoreItemSteps(folders_to_delete, is)
                 \o [i \in 1..Len(folders_to_delete) |->
                        [cmd |-> "delete_folder", id |-> folders_to_delete[i].id]]
        failed == failAt \in 1..Len(steps)
        ran == IF failed THEN failAt - 1 ELSE Len(steps)
        Gone(cmd, id) == \E i \in 1..ran : steps[i].cmd = cmd /\ steps[i].id = id
        KeepItem(it) == ~Gone("delete_item", it.id)
        KeepFolder(f) == ~Gone("delete_folder", f.id)
    IN  [err |-> IF failed THEN _run_bw(Proc(failAt, failAt, kind), TRUE) ELSE "none",
         folders |-> SelectSeq(fs, KeepFolder),
         items |-> SelectSeq(is, KeepItem),
         calls |-> IF failed THEN failAt ELSE Len(steps)]

(***************************************************************************)
(* Manifest, remote marker and upload.                                     *)
(***************************************************************************)
RECURSIVE InsertSorted(_, _)
InsertSorted(x, s) ==
    IF s = <<>> THEN <<x>>
    ELSE IF BytesLess(x, s[1]) THEN <<x>> \o s
    ELSE <<s[1]>> \o InsertSorted(x, Tail(s))

\* the manifest in enumeration order
unsorted(s) == s

\* sorted(manifest)
RECURSIVE sorted(_)
sorted(s) ==
    IF s = <<>> THEN <<>> ELSE InsertSorted(s[1], sorted(Tail(s)))

\* b"\n".join(parts)
RECURSIVE JoinLines(_)
JoinLines(parts) ==
    IF parts = <<>> THEN <<>>
    ELSE IF Len(parts) = 1 THEN parts[1]
    ELSE parts[1] \o <<10>> \o JoinLines(Tail(parts))

\* the characters str.strip() removes
Whitespace == {9, 10, 11, 12, 13, 28, 29, 30, 31, 32, 133, 160}

RECURSIVE LStrip(_)
LStrip(s) ==
    IF s # <<>> /\ s[1] \in Whitespace THEN LStrip(Tail(s)) ELSE s

RECURSIVE RStrip(_)
RStrip(s) ==
    IF s # <<>> /\ s[Len(s)] \in Whitespace
    THEN RStrip(SubSeq(s, 1, Len(s) - 1)) ELSE s

\* str.strip()
Strip(s) == RStrip(LStrip(s))

\* files: "s" and "s2" are deployed secrets, "c" is a public file that
\* activation needs, "k" one that partitioning needs
File(name, secret, needed_for, value) ==
    [name |-> name, secret |-> secret, deploy |-> TRUE, mode |-> 256,
     owner |-> <<114, 111, 111, 116>>, group |-> <<114, 111, 111, 116>>,
     needed_for |-> needed_for, value |-> value]

FileS == File(<<115>>, TRUE, "services", <<>>)
FileS2 == File(<<115, 50>>, TRUE, "users", <<>>)
FileC == File(<<99>>, FALSE, "activation", <<104, 105, 33>>)
FileK == File(<<107>>, FALSE, "partitioning", <<255>>)

WithFiles(generator, files) ==
    [name |-> generator.name, share |-> generator.share,
     machines |-> generator.machines, files |-> files]

\* machine "m" has the secrets g/s and (shared) g/s2, machine "m1" has none
FlakeA ==
    [m \in Machines |->
        IF m = <<109>>
        THEN <<WithFiles(GenM, <<FileS, FileC>>), WithFiles(GenShared, <<FileS2>>)>>
        ELSE <<WithFiles(GenM1, <<FileC, FileK>>)>>]

\* the same secrets for "m", enumerated in the other order; "m1" has g/s
FlakeB ==
    [m \in Machines |->
        IF m = <<109>>
        THEN <<WithFiles(GenShared, <<FileS2>>), WithFiles(GenM, <<FileC, FileS>>)>>
        ELSE <<WithFiles(GenM1, <<FileS>>)>>]

\* the flakes a store is made for
Flakes == {"A", "B"}

\* FlakeA with the generators of "m" enumerated in the other order
FlakeC ==
    [m \in Machines |->
        IF m = <<109>>
        THEN <<WithFiles(GenShared, <<FileS2>>), WithFiles(GenM, <<FileS, FileC>>)>>
        ELSE <<WithFiles(GenM1, <<FileK>>)>>]

\* FlakeA with the files of a generator enumerated in the other order
FlakeD ==
    [m \in Machines |->
        IF m = <<109>>
        THEN <<WithFiles(GenM, <<FileC, FileS>>), WithFiles(GenShared, <<FileS2>>)>>
        ELSE <<WithFiles(GenM1, <<FileK, FileC>>)>>]

\* both secrets of "m" in one generator, in either order; "m1" has g/s2, g/s
FlakeE ==
    [m \in Machines |->
        IF m = <<109>>
        THEN <<WithFiles(GenM, <<FileS, FileS2>>)>>
        ELSE <<WithFiles(GenM1, <<FileS2, FileC, FileS>>)>>]

FlakeF ==
    [m \in Machines |->
        IF m = <<109>>
        THEN <<WithFiles(GenM, <<FileS2, FileC, FileS>>)>>
        ELSE <<WithFiles(GenM1, <<FileS, FileS2>>)>>]

\* the flakes a manifest is computed for
HashFlakes == {"A", "B", "C", "D", "E", "F"}

\* Generator.get_machine_generators([machine], self.flake)
get_machine_generators(machine, fl) ==
    CASE fl = "A" -> FlakeA[machine]
      [] fl = "B" -> FlakeB[machine]
      [] fl = "C" -> FlakeC[machine]
      [] fl = "D" -> FlakeD[machine]
      [] fl = "E" -> FlakeE[machine]
      [] OTHER -> FlakeF[machine]

\* the (generator, file) pairs in the order the nested loops visit them
RECURSIVE GeneratorFiles(_)
GeneratorFiles(generators) ==
    IF generators = <<>> THEN <<>>
    ELSE [i \in 1..Len(generators[1].files) |->
             [generator |-> generators[1], file |-> generators[1].files[i]]]
         \o GeneratorFiles(Tail(generators))

\* "<generator>/<file>"
EntryName(gf) == gf.generator.name \o Slash \o gf.file.name

\* [err, bytes, calls]
generate_hash(fl, machine, fail, kind) ==
    LET generators == get_machine_generators(machine, fl)
        Secret(gf) == gf.file.secret
        secret_files == SelectSeq(GeneratorFiles(generators), Secret)
        manifest == [i \in 1..Len(secret_files) |->
                        Utf8Encode(EntryName(secret_files[i]))]
        e == _run_bw(Proc("sync", fail, kind), FALSE)
    IN  IF e # "none" THEN [err |-> e, bytes |-> <<>>, calls |-> 1]
        ELSE [err |-> "none", bytes |-> JoinLines(sorted(manifest)), calls |-> 1]

\* ".bw_info"
MarkerPath == << <<46, 98, 119, 95, 105, 110, 102, 111>> >>

HasMarker(dir) == \E f \in dir.plain : f.path = MarkerPath

MarkerBytes(dir) == (CHOOSE f \in dir.plain : f.path = MarkerPath).content

\* host.run(["cat", ".../.bw_info"], check=False).stdout
RemoteCat(dir) == IF HasMarker(dir) THEN Utf8Decode(MarkerBytes(dir)) ELSE <<>>

\* the marker as it was read, whitespace and all
remote_hash_raw(dir) == RemoteCat(dir)

\* host.run(["cat", ...]).stdout.strip()
remote_hash(dir) == Strip(RemoteCat(dir))

\* a needs_upload that only compares the two sides
needs_upload_compare_only(fl, rm, machine, fail, kind) ==
    LET h == generate_hash(fl, machine, fail, kind)
    IN  IF h.err # "none" THEN
            [err |-> h.err, bool |-> FALSE, calls |-> h.calls, reads |-> 0]
        ELSE [err |-> "none",
              bool |-> h.bytes # Utf8Encode(remote_hash(rm[machine])),
              calls |-> h.calls, reads |-> 1]

\* [err, bool, calls, reads]
needs_upload(fl, rm, machine, fail, kind) ==
    LET h == generate_hash(fl, machine, fail, kind)
        local_hash == h.bytes
    IN  IF h.err # "none" THEN
            [err |-> h.err, bool |-> FALSE, calls |-> h.calls, reads |-> 0]
        ELSE IF local_hash = <<>> THEN
            [err |-> "none", bool |-> TRUE, calls |-> h.calls, reads |-> 0]
        ELSE IF remote_hash(rm[machine]) = <<>> THEN
            [err |-> "none", bool |-> TRUE, calls |-> h.calls, reads |-> 1]
        ELSE [err |-> "none",
              bool |-> local_hash # Utf8Encode(remote_hash(rm[machine])),
              calls |-> h.calls, reads |-> 1]

\* the secrets of the selected files, fetched in order until one get raises:
\* [err, contents, calls]
FetchNext(r, rest) ==
    IF r.err # "none" THEN
        [err |-> r.err, contents |-> <<>>, calls |-> r.calls]
    ELSE [err |-> rest.err,
          contents |-> <<r.bytes>> \o rest.contents,
          calls |-> r.calls + rest.calls]

RECURSIVE FetchSecrets(_, _, _, _, _)
FetchSecrets(fs, is, selected, fail, kind) ==
    IF selected = <<>> THEN [err |-> "none", contents |-> <<>>, calls |-> 0]
    ELSE FetchNext(get(fs, is, selected[1].generator, selected[1].file.name,
                       fail, kind),
                   FetchSecrets(fs, is, Tail(selected), fail, kind))

\* the entries of secrets_for_users.tar.gz
UsersTar(selected, contents) ==
    [i \in 1..Len(selected) |->
        [name |-> EntryName(selected[i]), size |-> Len(contents[i]),
         mode |-> selected[i].file.mode, data |-> contents[i]]]

\* the entries of secrets.tar.gz: a directory entry before a generator's
\* first file
RECURSIVE ServicesTar(_, _, _)
ServicesTar(selected, contents, i) ==
    IF i > Len(selected) THEN <<>>
    ELSE (IF \E j \in 1..(i - 1) : selected[j].generator = selected[i].generator
          THEN <<>>
          ELSE <<[name |-> selected[i].generator.name, type |-> "DIRTYPE",
                  mode |-> 329]>>)
         \o <<[name |-> EntryName(selected[i]), size |-> Len(contents[i]),
               mode |-> selected[i].file.mode, uname |-> selected[i].file.owner,
               gname |-> selected[i].file.group, data |-> contents[i]]>>
         \o ServicesTar(selected, contents, i + 1)

\* "activation" and "partitioning" as directory names
PhaseDir(phase) ==
    IF phase = "activation"
    THEN <<97, 99, 116, 105, 118, 97, 116, 105, 111, 110>>
    ELSE <<112, 97, 114, 116, 105, 116, 105, 111, 110, 105, 110, 103>>

\* the plain files written for a phase ("activation" or "partitioning")
PlainFiles(generatorFiles, phase) ==
    {[path |-> <<PhaseDir(phase), generatorFiles[i].generator.name,
                 generatorFiles[i].file.name>>,
      content |-> generatorFiles[i].file.value] :
        i \in {j \in 1..Len(generatorFiles) :
                  generatorFiles[j].file.needed_for = phase}}

\* "secrets_for_users.tar.gz" and "secrets.tar.gz"
UsersTarPath ==
    << <<115, 101, 99, 114, 101, 116, 115, 95, 102, 111, 114, 95, 117, 115,
         101, 114, 115, 46, 116, 97, 114, 46, 103, 122>> >>
ServicesTarPath ==
    << <<115, 101, 99, 114, 101, 116, 115, 46, 116, 97, 114, 46, 103, 122>> >>

EmptyDir == [tars |-> {}, plain |-> {}]

\* a staging that writes no marker
MarkerFileNever(h) == {}

\* the .bw_info file written for the manifest h, unless it is empty
MarkerFile(h) ==
    IF h.bytes # <<>>
    THEN {[path |-> MarkerPath, content |-> h.bytes]}
    ELSE {}

\* the files the users and services tars are made of
DeployedSecret(gf) == gf.file.deploy /\ gf.file.secret

\* no secret is fetched for a phase that was not asked for
NothingFetched == [err |-> "none", contents |-> <<>>, calls |-> 0]

\* what output_dir holds when populate_dir returns, given the generator
\* files (all), the deployed secrets among them (selected), what fetching
\* them gave for each tar (users, services) and the manifest (h):
\* [err, dir, calls]
StagedDir(all, selected, users, services, h, phases) ==
    LET tars == (IF "users" \in phases
                 THEN {[path |-> UsersTarPath,
                        entries |-> UsersTar(selected, users.contents)]}
                 ELSE {})
                \cup (IF "services" \in phases
                      THEN {[path |-> ServicesTarPath,
                             entries |-> ServicesTar(selected, services.contents, 1)]}
                      ELSE {})
        plain == (IF "activation" \in phases
                  THEN PlainFiles(all, "activation") ELSE {})
                 \cup (IF "partitioning" \in phases
                       THEN PlainFiles(all, "partitioning") ELSE {})
                 \cup MarkerFile(h)
    IN  IF users.err # "none" THEN
            [err |-> users.err, dir |-> EmptyDir, calls |-> users.calls]
        ELSE IF services.err # "none" THEN
            [err |-> services.err, dir |-> EmptyDir,
             calls |-> users.calls + services.calls]
        ELSE IF h.err # "none" THEN
            [err |-> h.err, dir |-> EmptyDir,
             calls |-> users.calls + services.calls + h.calls]
        ELSE [err |-> "none", dir |-> [tars |-> tars, plain |-> plain],
              calls |-> users.calls + services.calls + h.calls]

\* the secrets populate_dir fetches for a tar of the machine's generators
TarSecrets(fs, is, fl, machine, fail, kind) ==
    FetchSecrets(fs, is,
                 SelectSeq(GeneratorFiles(get_machine_generators(machine, fl)),
                           DeployedSecret),
                 fail, kind)

\* [err, dir, calls]: dir is what output_dir holds when the call returns
populate_dir(fs, is, fl, machine, phases, fail, kind) ==
    StagedDir(GeneratorFiles(get_machine_generators(machine, fl)),
              SelectSeq(GeneratorFiles(get_machine_generators(machine, fl)),
                        DeployedSecret),
              IF "users" \in phases
              THEN TarSecrets(fs, is, fl, machine, fail, kind)
              ELSE NothingFetched,
              IF "services" \in phases
              THEN TarSecrets(fs, is, fl, machine, fail, kind)
              ELSE NothingFetched,
              generate_hash(fl, machine, fail, kind), phases)

\* clan_lib.ssh.upload.upload: the recursive copy of the staged directory
\* into the directory on the host
TransportUpload(dir, staged) ==
    [tars |-> {f \in dir.tars : \A n \in staged.tars : n.path # f.path}
              \cup staged.tars,
     plain |-> {f \in dir.plain : \A n \in staged.plain : n.path # f.path}
               \cup staged.plain]

\* a staging directory that is removed only when the block did not raise
CleanupOnSuccess(tmp, e) == IF e = "none" THEN tmp ELSE 0

\* TemporaryDirectory.__exit__: the directories the with block created are
\* removed, whether the block ended normally or raised e
Cleanup(tmp, e) == tmp

\* an upload that asks whether an upload is needed before it looks at phases
UploadStepsCheckLater(n, p, rm, machine, phases, fail) ==
    LET stop(e, calls, reads, tmp, sent) ==
            [err |-> e, remote |-> rm, calls |-> calls, reads |-> reads,
             created |-> tmp, removed |-> Cleanup(tmp, e), sent |-> sent]
    IN  IF n.err # "none" THEN stop(n.err, n.calls, n.reads, 0, 0)
        ELSE IF ~n.bool THEN stop("none", n.calls, n.reads, 0, 0)
        ELSE IF "partitioning" \in phases THEN
            stop("NotImplementedError", n.calls, n.reads, 0, 0)
        ELSE IF p.err # "none" THEN stop(p.err, n.calls + p.calls, n.reads, 1, 0)
        ELSE IF fail = "transport" THEN
            stop("TransportError", n.calls + p.calls, n.reads, 1, 1)
        ELSE [stop("none", n.calls + p.calls, n.reads, 1, 1)
                 EXCEPT !.remote = [rm EXCEPT ![machine] =
                                       TransportUpload(rm[machine], p.dir)]]

\* an upload that stages and sends whatever needs_upload says
UploadStepsAlways(n, p, rm, machine, phases, fail) ==
    LET stop(e, calls, reads, tmp, sent) ==
            [err |-> e, remote |-> rm, calls |-> calls, reads |-> reads,
             created |-> tmp, removed |-> Cleanup(tmp, e), sent |-> sent]
    IN  IF "partitioning" \in phases THEN stop("NotImplementedError", 0, 0, 0, 0)
        ELSE IF n.err # "none" THEN stop(n.err, n.calls, n.reads, 0, 0)
        ELSE IF p.err # "none" THEN stop(p.err, n.calls + p.calls, n.reads, 1, 0)
        ELSE IF fail = "transport" THEN
            stop("TransportError", n.calls + p.calls, n.reads, 1, 1)
        ELSE [stop("none", n.calls + p.calls, n.reads, 1, 1)
                 EXCEPT !.remote = [rm EXCEPT ![machine] =
                                       TransportUpload(rm[machine], p.dir)]]

\* the body of upload, given what needs_upload (n) and populate_dir (p) give
\* when they are called: [err, remote, calls, reads, created, removed, sent]
UploadSteps(n, p, rm, machine, phases, fail) ==
    LET stop(e, calls, reads, tmp, sent) ==
            [err |-> e, remote |-> rm, calls |-> calls, reads |-> reads,
             created |-> tmp, removed |-> Cleanup(tmp, e), sent |-> sent]
    IN  IF "partitioning" \in phases THEN stop("NotImplementedError", 0, 0, 0, 0)
        ELSE IF n.err # "none" THEN stop(n.err, n.calls, n.reads, 0, 0)
        ELSE IF ~n.bool THEN stop("none", n.calls, n.reads, 0, 0)
        ELSE IF p.err # "none" THEN stop(p.err, n.calls + p.calls, n.reads, 1, 0)
        ELSE IF fail = "transport" THEN
            stop("TransportError", n.calls + p.calls, n.reads, 1, 1)
        ELSE [stop("none", n.calls + p.calls, n.reads, 1, 1)
                 EXCEPT !.remote = [rm EXCEPT ![machine] =
                                       TransportUpload(rm[machine], p.dir)]]

upload(fs, is, fl, rm, machine, phases, fail, kind) ==
    UploadSteps(needs_upload(fl, rm, machine, fail, kind),
                populate_dir(fs, is, fl, machine, phases, fail, kind),
                rm, machine, phases, fail)

(***************************************************************************)
(* The states the store starts from.                                       *)
(***************************************************************************)
\* an item as _set writes it
StoredItem(id, name, folderId, value) ==
    [id |-> id, name |-> name, folderId |-> folderId,
     notes |-> b64encode(value), fields |-> EncodingFields]

\* an item a person typed into the vault: notes "plain_password", no field
ManualItem(id, name, folderId) ==
    [id |-> id, name |-> name, folderId |-> folderId,
     notes |-> <<112, 108, 97, 105, 110, 95, 112, 97, 115, 115, 119, 111,
                 114, 100>>,
     fields |-> {}]

EmptyVault == [folders |-> <<>>, items |-> <<>>]

\* one entry "s" for each of the three generators
FullVault ==
    [folders |-> <<[id |-> 1, name |-> _folder_path(GenM)],
                   [id |-> 2, name |-> _folder_path(GenM1)],
                   [id |-> 3, name |-> _folder_path(GenShared)]>>,
     items |-> <<StoredItem(4, <<115>>, 1, <<255>>),
                 StoredItem(5, <<115>>, 2, <<0, 1, 2, 255, 254>>),
                 StoredItem(6, <<115>>, 3, <<255>>)>>]

\* a manually entered "s" for machine "m"
ManualVault ==
    [folders |-> <<[id |-> 1, name |-> _folder_path(GenM)]>>,
     items |-> <<ManualItem(2, <<115>>, 1)>>]

InitVaults == {EmptyVault, FullVault, ManualVault}

\* an item _set wrote, whose notes a person then replaced in the vault by
\* "plain_password": the encoding field is still there
EditedItem(id, name, folderId) ==
    [ManualItem(id, name, folderId) EXCEPT !.fields = EncodingFields]

\* the edited "s" for machine "m", a manually entered "s" for machine "m1"
EditedVault ==
    [folders |-> <<[id |-> 1, name |-> _folder_path(GenM)],
                   [id |-> 2, name |-> _folder_path(GenM1)]>>,
     items |-> <<EditedItem(3, <<115>>, 1), ManualItem(4, <<115>>, 2)>>]

\* contents of .bw_info found on a host: "", "\n", "g/s", "g/s\n",
\* "g/s\ng/s2", " g/s\ng/s2\n"
MarkerContents ==
    {<<>>, <<10>>, <<103, 47, 115>>, <<103, 47, 115, 10>>,
     <<103, 47, 115, 10, 103, 47, 115, 50>>,
     <<32, 103, 47, 115, 10, 103, 47, 115, 50, 10>>}

RemoteDirs ==
    {EmptyDir}
    \cup {[tars |-> {}, plain |-> {[path |-> MarkerPath, content |-> c]}] :
             c \in MarkerContents}

Untracked == [a \in Addresses |-> "ABSENT"]

\* no call is in progress
NoCall == [op |-> "none"]

\* the ways a command of bw goes wrong during a call: any command of the
\* call exits non-zero, bw is missing from PATH, or the vault is locked
Failures(cmds, first, checked) ==
    {<<"none", "nonzero">>} \cup (cmds \X {"nonzero"})
    \cup {<<first, "missing">>, <<checked, "locked">>}

SetFailures ==
    Failures({"folder_list", "folder_encode", "folder_create", "item_list",
              "item_folders", "item_encode", "item_write"},
             "folder_list", "item_write")
GetFailures == Failures({"item_list", "item_folders"}, "item_list", "item_folders")
DeleteFailures ==
    Failures({"item_list", "item_folders", "item_delete"}, "item_list", "item_delete")
HashFailures == Failures({"sync"}, "sync", "sync")
UploadFailures ==
    Failures({"sync", "item_list", "item_folders", "transport"}, "sync",
             "item_folders")

PhaseLists == {{"users"}, {"services", "users"}, {"activation"},
               {"partitioning"}, {"users", "partitioning"}, {}}

(***************************************************************************)
(* The calls of the store, as actions.  The store is synchronous: a call   *)
(* runs to its end, "last" holds its inputs and its outcome until the      *)
(* caller has taken them (Return), and only then is the next call made.    *)
(***************************************************************************)
Set(generator, var_name, value, fail, kind) ==
    LET r == _set(folders, items, generator, var_name, value, fail, kind)
        vault == Listing(r.folders, r.items)
    IN  /\ last = NoCall
        /\ Len(r.items) <= MaxItems
        /\ folders' = vault.folders
        /\ items' = vault.items
        /\ tracked' = (tracked /\ r.err = "none")
        /\ life' = IF tracked'
                   THEN [life EXCEPT ![<<generator, var_name>>] = "PRESENT"]
                   ELSE Untracked
        /\ last' = [op |-> "set", generator |-> generator, name |-> var_name,
                    value |-> value, fail |-> fail, err |-> r.err,
                    calls |-> r.calls]
        /\ UNCHANGED <<flake, remote, tmpdirs>>

Get(generator, name, fail, kind) ==
    LET r == get(folders, items, generator, name, fail, kind)
    IN  /\ last = NoCall
        /\ last' = [op |-> "get", generator |-> generator, name |-> name,
                    fail |-> fail, err |-> r.err, bytes |-> r.bytes,
                    calls |-> r.calls]
        /\ UNCHANGED <<folders, items, flake, remote, tmpdirs, life, tracked>>

Exists(generator, name, fail, kind) ==
    LET r == exists(folders, items, generator, name, fail, kind)
    IN  /\ last = NoCall
        /\ last' = [op |-> "exists", generator |-> generator, name |-> name,
                    fail |-> fail, err |-> r.err, bool |-> r.bool,
                    calls |-> r.calls]
        /\ UNCHANGED <<folders, items, flake, remote, tmpdirs, life, tracked>>

Delete(generator, name, fail, kind) ==
    LET r == delete(folders, items, generator, name, fail, kind)
    IN  /\ last = NoCall
        /\ items' = Listing(folders, r.items).items
        /\ tracked' = (tracked /\ r.err = "none")
        /\ life' = IF tracked'
                   THEN [life EXCEPT ![<<generator, name>>] = "ABSENT"]
                   ELSE Untracked
        /\ last' = [op |-> "delete", generator |-> generator, name |-> name,
                    fail |-> fail, err |-> r.err, calls |-> r.calls]
        /\ UNCHANGED <<folders, flake, remote, tmpdirs>>

DeleteStore(machine, failAt, kind) ==
    LET r == delete_store(folders, items, machine, failAt, kind)
        vault == Listing(r.folders, r.items)
    IN  /\ last = NoCall
        /\ failAt <= r.calls
        /\ folders' = vault.folders
        /\ items' = vault.items
        /\ tracked' = (tracked /\ r.err = "none")
        /\ life' = IF tracked'
                   THEN [a \in Addresses |->
                            IF ~a[1].share /\ a[1].machines[1] = machine
                            THEN "ABSENT" ELSE life[a]]
                   ELSE Untracked
        /\ last' = [op |-> "delete_store", machine |-> machine,
                    fail |-> failAt, err |-> r.err, calls |-> r.calls]
        /\ UNCHANGED <<flake, remote, tmpdirs>>

NeedsUpload(machine, fail, kind) ==
    LET r == needs_upload(flake, remote, machine, fail, kind)
    IN  /\ last = NoCall
        /\ last' = [op |-> "needs_upload", machine |-> machine, fail |-> fail,
                    err |-> r.err, bool |-> r.bool, calls |-> r.calls,
                    reads |-> r.reads]
        /\ UNCHANGED <<folders, items, flake, remote, tmpdirs, life, tracked>>

Upload(machine, phases, fail, kind) ==
    LET r == upload(folders, items, flake, remote, machine, phases, fail, kind)
    IN  /\ last = NoCall
        /\ remote' = r.remote
        /\ tmpdirs' = tmpdirs + r.created - r.removed
        /\ last' = [op |-> "upload", machine |-> machine, phases |-> phases,
                    fail |-> fail, err |-> r.err, calls |-> r.calls,
                    reads |-> r.reads, created |-> r.created,
                    removed |-> r.removed, sent |-> r.sent]
        /\ UNCHANGED <<folders, items, flake, life, tracked>>

GenerateHash(machine, fail, kind) ==
    LET r == generate_hash(flake, machine, fail, kind)
    IN  /\ last = NoCall
        /\ last' = [op |-> "generate_hash", machine |-> machine,
                    fail |-> fail, err |-> r.err, bytes |-> r.bytes,
                    calls |-> r.calls]
        /\ UNCHANGED <<folders, items, flake, remote, tmpdirs, life, tracked>>

\* one vault CLI invocation through the runner, on a process result
RunBw(present, returncode, stderr, check) ==
    /\ last = NoCall
    /\ last' = [op |-> "run_bw", present |-> present,
                returncode |-> returncode, stderr |-> stderr, check |-> check,
                err |-> _run_bw([present |-> present, returncode |-> returncode,
                                 stderr |-> stderr], check)]
    /\ UNCHANGED <<folders, items, flake, remote, tmpdirs, life, tracked>>

\* the caller takes the outcome of the call
Return ==
    /\ last # NoCall
    /\ last' = NoCall
    /\ UNCHANGED <<folders, items, flake, remote, tmpdirs, life, tracked>>

(***************************************************************************)
(* Specifications.                                                         *)
(***************************************************************************)
\* the secret store over the vault
Init ==
    /\ \E v \in {EmptyVault, FullVault} : folders = v.folders /\ items = v.items
    /\ flake = "A"
    /\ remote = [m \in Machines |-> EmptyDir]
    /\ tmpdirs = 0
    /\ life = Untracked
    /\ tracked = FALSE
    /\ last = NoCall

Next ==
    \/ \E a \in Addresses, v \in Values, f \in SetFailures :
          Set(a[1], a[2], v, f[1], f[2])
    \/ \E a \in Addresses, f \in GetFailures : Get(a[1], a[2], f[1], f[2])
    \/ \E a \in Addresses, f \in GetFailures : Exists(a[1], a[2], f[1], f[2])
    \/ \E a \in Addresses, f \in DeleteFailures : Delete(a[1], a[2], f[1], f[2])
    \/ \E m \in Machines, at \in 0..(MaxItems + 3) : DeleteStore(m, at, "nonzero")
    \/ \E m \in Machines : DeleteStore(m, 1, "missing")
    \/ Return

Spec == Init /\ [][Next]_vars

\* the same store from an empty vault, with the lifecycle of every entry
\* followed for as long as no call raises
InitLifecycle ==
    /\ folders = <<>> /\ items = <<>>
    /\ flake = "A"
    /\ remote = [m \in Machines |-> EmptyDir]
    /\ tmpdirs = 0
    /\ life = Untracked
    /\ tracked = TRUE
    /\ last = NoCall

SpecLifecycle == InitLifecycle /\ [][Next]_vars

\* one host holds what an earlier upload or a person left there
InitRemotes ==
    {r \in [Machines -> RemoteDirs] :
        \E m \in Machines : \A o \in Machines \ {m} : r[o] = EmptyDir}

\* upload of the vault's secrets to the machines' hosts
InitUpload ==
    /\ \E v \in InitVaults : folders = v.folders /\ items = v.items
    /\ flake \in Flakes
    /\ remote \in InitRemotes
    /\ tmpdirs = 0
    /\ life = Untracked
    /\ tracked = FALSE
    /\ last = NoCall

NextUpload ==
    \/ \E m \in Machines, f \in HashFailures : NeedsUpload(m, f[1], f[2])
    \/ \E m \in Machines, p \in PhaseLists, f \in UploadFailures :
          Upload(m, p, f[1], f[2])
    \/ Return

SpecUpload == InitUpload /\ [][NextUpload]_vars

\* the store over a vault that holds entries people entered or edited
InitLegacy ==
    /\ \E v \in {ManualVault, EditedVault} :
          folders = v.folders /\ items = v.items
    /\ flake = "A"
    /\ remote = [m \in Machines |-> EmptyDir]
    /\ tmpdirs = 0
    /\ life = Untracked
    /\ tracked = FALSE
    /\ last = NoCall

SpecLegacy == InitLegacy /\ [][Next]_vars

\* the manifest of the machines of a flake
InitHash ==
    /\ \E v \in InitVaults : folders = v.folders /\ items = v.items
    /\ flake \in HashFlakes
    /\ remote = [m \in Machines |-> EmptyDir]
    /\ tmpdirs = 0
    /\ life = Untracked
    /\ tracked = FALSE
    /\ last = NoCall

NextHash ==
    \/ \E m \in Machines, f \in HashFailures : GenerateHash(m, f[1], f[2])
    \/ Return

SpecHash == InitHash /\ [][NextHash]_vars

\* the runner over the results a vault CLI process can give
ExitCodes == {0, 1, 2}

\* "", "boom", "Not logged in.", "You are not logged in.", "Vault is locked.",
\* "VAULT IS LOCKED", "agent not running", "Agent refused", "not logged",
\* "mac failed."
StderrTexts ==
    {<<>>,
     <<98, 111, 111, 109>>,
     <<78, 111, 116, 32, 108, 111, 103, 103, 101, 100, 32, 105, 110, 46>>,
     <<89, 111, 117, 32, 97, 114, 101, 32, 110, 111, 116, 32, 108, 111, 103,
       103, 101, 100, 32, 105, 110, 46>>,
     <<86, 97, 117, 108, 116, 32, 105, 115, 32, 108, 111, 99, 107, 101, 100, 46>>,
     <<86, 65, 85, 76, 84, 32, 73, 83, 32, 76, 79, 67, 75, 69, 68>>,
     <<97, 103, 101, 110, 116, 32, 110, 111, 116, 32, 114, 117, 110, 110, 105,
       110, 103>>,
     <<65, 103, 101, 110, 116, 32, 114, 101, 102, 117, 115, 101, 100>>,
     <<110, 111, 116, 32, 108, 111, 103, 103, 101, 100>>,
     <<109, 97, 99, 32, 102, 97, 105, 108, 101, 100, 46>>}

InitRunBw ==
    /\ folders = <<>> /\ items = <<>>
    /\ flake = "A"
    /\ remote = [m \in Machines |-> EmptyDir]
    /\ tmpdirs = 0
    /\ life = Untracked
    /\ tracked = FALSE
    /\ last = NoCall

NextRunBw ==
    \/ \E present \in BOOLEAN, rc \in ExitCodes, stderr \in StderrTexts,
          check \in BOOLEAN : RunBw(present, rc, stderr, check)
    \/ Return

SpecRunBw == InitRunBw /\ [][NextRunBw]_vars

(***************************************************************************)
(* Properties.                                                             *)
(***************************************************************************)
\* positions in the listing of the live entries named name whose folder is
\* named path
LiveEntries(fs, is, path, name) ==
    {i \in 1..Len(is) :
        /\ is[i].name = name
        /\ \E j \in 1..Len(fs) :
              fs[j].id = is[i].folderId /\ fs[j].name = path}

NoEntry(fs, is, generator, name) ==
    LiveEntries(fs, is, _folder_path(generator), name) = {}

CliErrors == {"ToolMissing", "VaultLocked", "CommandFailed"}

\* C1: after _set(generator, name, value) returns normally, get(generator,
\* name) returns exactly value, whatever was stored at the address before.
C1_SetThenGet ==
    (last.op = "set" /\ last.err = "none") =>
        LET r == get(folders, items, last.generator, last.name,
                     "none", "nonzero")
        IN  r.err = "none" /\ r.bytes = last.value

\* C2: in every reachable vault state, CLI failures included, no address
\* (generator folder path, variable name) holds more than one live entry.
C2_AtMostOneEntry ==
    \A a \in Addresses :
        Cardinality(LiveEntries(folders, items, _folder_path(a[1]), a[2])) <= 1

\* the folder path of the folder with the given id
FolderPathOf(fs, id) == fs[CHOOSE j \in 1..Len(fs) : fs[j].id = id].name

\* the vault's entries in listing order, by folder path instead of folder id
Entries(fs, is) ==
    [i \in 1..Len(is) |->
        [path |-> FolderPathOf(fs, is[i].folderId), name |-> is[i].name,
         notes |-> is[i].notes, fields |-> is[i].fields]]

\* "clan-vars/per-machine/<machine>/"
PerMachinePrefix(machine) ==
    <<99, 108, 97, 110, 45, 118, 97, 114, 115, 47, 112, 101, 114, 45, 109, 97, 99, 104, 105, 110, 101, 47>> \o machine \o <<47>>

\* C3: a delete_store(machine) call that completes removes every entry whose
\* folder path starts with "clan-vars/per-machine/<machine>/" and no other:
\* the entries of other machines (also of a machine whose name starts with
\* <machine>) and the shared entries stay, with their values.
C3_DeleteStoreScope ==
    [][(last'.op = "delete_store" /\ last'.err = "none") =>
          LET Outside(e) == ~StartsWith(e.path, PerMachinePrefix(last'.machine))
          IN  Entries(folders', items')
                  = SelectSeq(Entries(folders, items), Outside)]_vars

\* delete_store("m") has completed, deleting an item and a folder, and the
\* entries of machine "m1" and the shared ones are in the vault
C3_Witness ==
    /\ last.op = "delete_store" /\ last.err = "none"
    /\ last.machine = <<109>> /\ last.calls >= 4
    /\ \E i \in 1..Len(items) :
          StartsWith(Entries(folders, items)[i].path, PerMachinePrefix(<<109, 49>>))
    /\ \E i \in 1..Len(items) :
          StartsWith(Entries(folders, items)[i].path, entry_prefix \o SharedDir)

\* the manifest generate_hash gives for the machine
LocalManifest(machine) == generate_hash(flake, machine, "none", "nonzero").bytes

\* the bytes of the machine's remote marker; none when it cannot be read
RemoteMarkerBytes(machine) ==
    IF HasMarker(remote[machine]) THEN MarkerBytes(remote[machine]) ELSE <<>>

C5_TrueWhenEmpty ==
    (last.op = "needs_upload"
     /\ (LocalManifest(last.machine) = <<>>
         \/ RemoteMarkerBytes(last.machine) = <<>>)) =>
        /\ last.err = "none" => last.bool
        /\ last.err # "none" => (last.err = "ToolMissing" /\ last.fail = "sync")

\* needs_upload has returned true for a machine without secret files whose
\* remote marker is not empty
C5_Witness ==
    /\ last.op = "needs_upload" /\ last.err = "none" /\ last.bool
    /\ LocalManifest(last.machine) = <<>>
    /\ RemoteMarkerBytes(last.machine) # <<>>

\* C6: upload with "partitioning" among the phases fails with
\* NotImplementedError in every vault and remote state, before any vault
\* command, any read of the remote marker, any temporary directory and any
\* call of the transport; the remote is as it was.
C6_PartitioningRejected ==
    [][(last'.op = "upload" /\ "partitioning" \in last'.phases) =>
          /\ last'.err = "NotImplementedError"
          /\ last'.calls = 0 /\ last'.reads = 0
          /\ last'.created = 0 /\ last'.sent = 0
          /\ remote' = remote /\ tmpdirs' = tmpdirs]_vars

\* an upload of the users and partitioning phases has been rejected, with
\* entries in the vault and a marker on the remote
C6_Witness ==
    /\ last.op = "upload" /\ last.phases = {"users", "partitioning"}
    /\ last.err = "NotImplementedError"
    /\ items # <<>> /\ HasMarker(remote[last.machine])

\* C7: delete(generator, name) on an address that holds no entry (never set,
\* already deleted, or without a folder) leaves the vault as it is and
\* returns without error; it raises only when a vault CLI command it runs
\* goes wrong.
C7_DeleteAbsent ==
    [][(last'.op = "delete"
        /\ NoEntry(folders, items, last'.generator, last'.name)) =>
          /\ folders' = folders /\ items' = items
          /\ last'.fail = "none" => last'.err = "none"
          /\ last'.err \in CliErrors \cup {"none"}]_vars

\* a delete has returned without error and without having run a bw delete,
\* on an address whose folder exists
C7_Witness ==
    /\ last.op = "delete" /\ last.err = "none" /\ last.fail = "none"
    /\ last.calls = 2
    /\ FolderNamed(folders, _folder_path(last.generator)) # 0
    /\ items # <<>>

\* C8: after any sequence of _set, delete and delete_store calls that all
\* returned normally, exists(generator, name) is true exactly for the
\* addresses whose most recent covering operation was a _set.
C8_ExistsFollowsLifecycle ==
    tracked =>
        \A a \in Addresses :
            exists(folders, items, a[1], a[2], "none", "nonzero").bool
                <=> life[a] = "PRESENT"

\* C9: get(generator, name) on an address for which the vault has no matching
\* entry fails with SecretNotFound (or with the error of the vault CLI
\* command that went wrong), never returns a value, not even that of an
\* entry of the same name in another folder, and leaves the vault as it is.
C9_GetAbsent ==
    [][(last'.op = "get"
        /\ NoEntry(folders, items, last'.generator, last'.name)) =>
          /\ last'.err \in CliErrors \cup {"SecretNotFound"}
          /\ last'.fail = "none" => last'.err = "SecretNotFound"
          /\ last'.bytes = <<>>
          /\ folders' = folders /\ items' = items]_vars

\* a get has failed with SecretNotFound on an address whose folder exists,
\* while another folder holds an entry of the same name
C9_Witness ==
    /\ last.op = "get" /\ last.err = "SecretNotFound" /\ last.fail = "none"
    /\ NoEntry(folders, items, last.generator, last.name)
    /\ FolderNamed(folders, _folder_path(last.generator)) # 0
    /\ \E i \in 1..Len(items) : items[i].name = last.name

\* C10: a checked vault CLI call that exits non-zero raises the vault-locked
\* error when its lowercased stderr contains "not logged in", "agent" or
\* "vault is locked", and the command-failed error otherwise.
\* With exit code 0 it returns without error.
C10_RunBwClassifies ==
    (last.op = "run_bw" /\ last.present /\ last.check) =>
        LET stderr == Lower(last.stderr)
        IN  IF last.returncode = 0 THEN last.err = "none"
            ELSE IF \/ Contains(stderr, NotLoggedIn)
                    \/ Contains(stderr, <<97, 103, 101, 110, 116>>)
                    \/ Contains(stderr, VaultIsLocked)
            THEN last.err = "VaultLocked"
            ELSE last.err = "CommandFailed"

\* C11: for every entry in the vault, whatever text it holds and with or
\* without the base64 encoding field, get raises no decode error; text that
\* is not valid base64 comes back as the UTF-8 bytes of the text itself.
C11_NeverDecodeError ==
    (last.op = "get" /\ last.fail = "none"
     /\ ~NoEntry(folders, items, last.generator, last.name)) =>
        LET at == CHOOSE i \in LiveEntries(folders, items,
                                           _folder_path(last.generator),
                                           last.name) :
                      \A j \in LiveEntries(folders, items,
                                           _folder_path(last.generator),
                                           last.name) : i <= j
            notes == items[at].notes
        IN  /\ last.err = "none"
            /\ ~b64decode(notes).ok => last.bytes = Utf8Encode(notes)

\* the "<generator>/<file>" identifiers of the machine's secret files
SecretIds(fl, machine) ==
    LET gens == get_machine_generators(machine, fl)
    IN  {Utf8Encode(gens[i].name \o <<47>> \o gens[i].files[j].name) :
            <<i, j>> \in {p \in (1..Len(gens)) \X (1..3) :
                            /\ p[2] <= Len(gens[p[1]].files)
                            /\ gens[p[1]].files[p[2]].secret}}

\* the identifiers of a set in lexicographic order, joined by newlines
RECURSIVE JoinedInOrder(_)
JoinedInOrder(ids) ==
    IF ids = {} THEN <<>>
    ELSE LET least == CHOOSE x \in ids :
                         \A y \in ids \ {x} : BytesLess(x, y)
         IN  IF ids = {least} THEN least
             ELSE least \o <<10>> \o JoinedInOrder(ids \ {least})

NoUploadNeeded(fl, rm, machine) ==
    LET n == needs_upload(fl, rm, machine, "none", "nonzero")
    IN  n.err = "none" /\ ~n.bool

\* C13: when needs_upload(machine, host) is false, upload with phases that
\* do not contain "partitioning" is a no-op: no staging directory, no secret
\* read from the vault (the only bw command is the sync of needs_upload), no
\* transport call, and the remote marker and directory stay as they are.
C13_UploadNoOp ==
    [][(last'.op = "upload" /\ "partitioning" \notin last'.phases
        /\ NoUploadNeeded(flake, remote, last'.machine)) =>
          /\ last'.created = 0 /\ last'.sent = 0
          /\ last'.calls = 1
          /\ remote' = remote /\ tmpdirs' = tmpdirs
          /\ last'.err \in {"none", "ToolMissing"}
          /\ last'.fail # "sync" => last'.err = "none"]_vars

\* an upload of the users and services phases has returned without doing
\* anything, with secrets in the vault and the marker on the host
C13_Witness ==
    /\ last.op = "upload" /\ last.err = "none"
    /\ last.phases = {"services", "users"}
    /\ last.created = 0 /\ last.sent = 0
    /\ items # <<>>
    /\ NoUploadNeeded(flake, remote, last.machine)

\* C14: whenever upload returns or raises, no staging directory the call
\* created is left: it is removed on every exit path, also when a vault read
\* fails during staging and when the transport fails.
C14_NoStagingDirLeft ==
    /\ tmpdirs = 0
    /\ last.op = "upload" => last.removed = last.created

\* an upload has raised after it had created its staging directory, a vault
\* read having failed during staging
C14_Witness ==
    /\ last.op = "upload" /\ last.err \in CliErrors \cup {"SecretNotFound"}
    /\ last.fail \in {"item_list", "item_folders"}
    /\ last.created = 1 /\ last.sent = 0

\* the phases lists upload accepts
UploadPhases == {p \in PhaseLists : "partitioning" \notin p}

\* the .bw_info files of a host
Markers(dir) == {f \in dir.plain : f.path = MarkerPath}

\* C15: after an upload for a machine with a secret file has staged and sent
\* (the marker has landed), needs_upload answers false and the next upload
\* does nothing; an upload for a machine without secret files writes no
\* marker and needs_upload stays true after it.
C15_UploadConverges ==
    [][last'.op = "upload" =>
          /\ (last'.err = "none" /\ last'.sent = 1
              /\ LocalManifest(last'.machine) # <<>>) =>
                /\ NoUploadNeeded(flake', remote', last'.machine)
                /\ \A p \in UploadPhases :
                      LET next == upload(folders', items', flake', remote',
                                         last'.machine, p, "none", "nonzero")
                      IN  /\ next.err = "none" /\ next.remote = remote'
                          /\ next.created = 0 /\ next.sent = 0
          /\ LocalManifest(last'.machine) = <<>> =>
                /\ Markers(remote'[last'.machine])
                      = Markers(remote[last'.machine])
                /\ needs_upload(flake', remote', last'.machine,
                                "none", "nonzero").bool]_vars

\* an upload of the users and services secrets of a machine has staged and
\* sent, and needs_upload now answers false
C15_Witness ==
    /\ last.op = "upload" /\ last.err = "none" /\ last.sent = 1
    /\ last.phases = {"services", "users"} /\ last.calls > 2
    /\ LocalManifest(last.machine) # <<>>
    /\ NoUploadNeeded(flake, remote, last.machine)

\* "clan-vars/shared/<generator>" or
\* "clan-vars/per-machine/<machine>/<generator>"
AddressPath(generator) ==
    IF generator.share
    THEN <<99, 108, 97, 110, 45, 118, 97, 114, 115, 47, 115, 104, 97, 114, 101, 100, 47>> \o generator.name
    ELSE PerMachinePrefix(generator.machines[1]) \o generator.name

\* the entries at the address, in listing order
EntriesAt(fs, is, a) ==
    LET At(e) == e.path = AddressPath(a[1]) /\ e.name = a[2]
    IN  SelectSeq(Entries(fs, is), At)

\* what get and exists answer at the address
Answers(fs, is, a) ==
    <<get(fs, is, a[1], a[2], "none", "nonzero"),
      exists(fs, is, a[1], a[2], "none", "nonzero")>>

\* C16: _set and delete act on one address: for every other address (the
\* same name under another machine's or the shared folder, another name in
\* the same folder) the entries and their values are the same before and
\* after the call, whether it returns or raises, and get and exists answer
\* the same there.
C16_OtherAddressesUntouched ==
    [][last'.op \in {"set", "delete"} =>
          \A b \in Addresses \ {<<last'.generator, last'.name>>} :
              /\ EntriesAt(folders', items', b) = EntriesAt(folders, items, b)
              /\ Answers(folders', items', b) = Answers(folders, items, b)]_vars

\* a _set has written a new value at one address while another machine's
\* folder and the shared folder hold an entry of the same name
C16_Witness ==
    /\ last.op = "set" /\ last.err = "none"
    /\ last.generator = GenM /\ last.name = <<115>>
    /\ last.value = <<0, 1, 2, 255, 254>>
    /\ EntriesAt(folders, items, <<GenM1, <<115>>>>) # <<>>
    /\ EntriesAt(folders, items, <<GenShared, <<115>>>>) # <<>>
    /\ get(folders, items, GenM, <<115>>, "none", "nonzero").bytes = last.value

=============================================================================
